---- MODULE Spec2Model ----
(***************************************************************************)
(* A model of cargo's ProcessBuilder (src/cargo/util/process_builder.rs):  *)
(* a mutable description of one child-process invocation (program,         *)
(* arguments, working directory, sparse environment overrides), its        *)
(* accessors, its materialisation into a std::process::Command and the two *)
(* execution operations.  The ambient process state the code reads         *)
(* (environment variables, current directory) and the operating system's   *)
(* answer to a spawn are the model's environment.                          *)
(***************************************************************************)
EXTENDS Naturals, Sequences, FiniteSets, TLC

\* ------------------------------------------------------------------ bounds

\* The longest argument list the model builds.
MaxArgs == 2

\* ------------------------------------------------------------ value spaces

\* Environment variable names, variable values, program names, argument
\* values and directories: small sets of opaque strings.
Keys == {"K1", "K2"}
Vals == {"a", "b"}
AmbientVals == {"c"}
Programs == {"echo", "missing"}
ArgVals == {"x", "y"}
Dirs == {"/w", "/t"}

\* Option<T>
None == [some |-> FALSE]
Some(v) == [some |-> TRUE, val |-> v]

\* Result<T, E>
Ok(v) == [ok |-> TRUE, val |-> v]
Err(e) == [ok |-> FALSE, err |-> e]

\* The unit value ().
Unit == "()"

\* Every sequence over S of length at most n.
SeqsUpTo(S, n) == UNION {[1..i -> S] : i \in 0..n}

\* Every order in which the entries of a HashMap with key set S can be
\* iterated.
IterationOrders(S) ==
    {o \in [1..Cardinality(S) -> S] : \A i, j \in DOMAIN o : i # j => o[i] # o[j]}

\* What the operating system can answer to a spawn: it fails with an
\* io::Error, or the child runs and ends with a status, having written
\* stdout and stderr.
IoErrors == {"NotFound", "PermissionDenied"}
ExitStatuses ==
    {[kind |-> "exited", n |-> 0], [kind |-> "exited", n |-> 1],
     [kind |-> "signaled", n |-> 9]}
Streams == {[stdout |-> "", stderr |-> ""], [stdout |-> "hello", stderr |-> "warn"]}

\* What Command::status() can return: io::Result<ExitStatus>.
StatusResults == {Err(e) : e \in IoErrors} \cup {Ok(st) : st \in ExitStatuses}

\* What Command::output() can return: io::Result<Output>.
OutputResults ==
    {Err(e) : e \in IoErrors}
    \cup {Ok([status |-> st, stdout |-> w.stdout, stderr |-> w.stderr]) :
            st \in ExitStatuses, w \in Streams}

\* ------------------------------------------------------------------- state

VARIABLES
    ambientEnv,   \* the process environment: [Keys -> Option], None = unset
    ambientCwd,   \* the process's current directory: Some(dir), or None when
                  \* it cannot be determined
    self,         \* the ProcessBuilder the caller holds: Some(builder) or None
    hist,         \* per key, the most recent env / env_remove call on it
    supplied,     \* the values given to arg / args so far, in call order
    moved,        \* the variables whose ambient value changed since the last
                  \* call that made or configured the builder
    built,        \* the first command materialised since the last mutator
                  \* call, and whether another materialisation followed
    last          \* the most recent event and what it returned

vars == <<ambientEnv, ambientCwd, self, hist, supplied, moved, built, last>>

NoCall == [call |-> "none"]

\* The most recent event was no call on the builder.
Nothing == [op |-> "none"]

\* ----------------------------------------------------------- the builder

\* HashMap::insert
Insert(m, k, v) == [x \in (DOMAIN m) \cup {k} |-> IF x = k THEN v ELSE m[x]]

\* HashMap::new
EmptyMap == [x \in {} |-> None]

\* process falling back to a default directory.
process_defaults(cmd, currentDir) ==
    Ok([program |-> cmd, args |-> <<>>,
        cwd |-> IF currentDir.some THEN currentDir.val ELSE "/w",
        env |-> EmptyMap])

\* pub fn process(cmd): the builder, or the error of env::current_dir().
process(cmd, currentDir) ==
    IF currentDir.some
    THEN Ok([program |-> cmd, args |-> <<>>, cwd |-> currentDir.val, env |-> EmptyMap])
    ELSE Err("IOError")

\* pub fn arg: self.args.push(arg)
arg(b, a) == [b EXCEPT !.args = Append(b.args, a)]

\* args putting the new values in front.
args_in_front(b, arguments) == [b EXCEPT !.args = arguments \o b.args]

\* pub fn args: self.args.extend(arguments.iter())
args(b, arguments) == [b EXCEPT !.args = b.args \o arguments]

\* pub fn cwd: self.cwd = path
cwd(b, path) == [b EXCEPT !.cwd = path]

\* env starting the override map afresh.
env_resets(b, key, val) == [b EXCEPT !.env = Insert(EmptyMap, key, Some(val))]

\* pub fn env: self.env.insert(key, Some(val))
env(b, key, val) == [b EXCEPT !.env = Insert(b.env, key, Some(val))]

\* env_remove forgetting the override instead of recording the removal.
env_remove_forgets(b, key) ==
    [b EXCEPT !.env = [x \in (DOMAIN b.env) \ {key} |-> b.env[x]]]

\* pub fn env_remove: self.env.insert(key, None)
env_remove(b, key) == [b EXCEPT !.env = Insert(b.env, key, None)]

\* pub fn get_args
get_args(b) == b.args

\* pub fn get_cwd
get_cwd(b) == b.cwd

\* get_env looking at the override map only.
get_env_overrides_only(b, ambient, var) ==
    IF var \in DOMAIN b.env THEN b.env[var] ELSE None

\* pub fn get_env: self.env.get(var).cloned()
\*                     .or_else(|| Some(env::var_os(var))).and_then(|s| s)
get_env(b, ambient, var) ==
    LET got == IF var \in DOMAIN b.env THEN Some(b.env[var]) ELSE None
        orElse == IF got.some THEN got ELSE Some(ambient[var])
    IN  orElse.val

\* pub fn get_envs
get_envs(b) == b.env

\* fn debug_string: the program, then each argument, separated by spaces
\* (kept as the sequence of the words joined).
debug_string(b) == <<b.program>> \o b.args

\* util::process_error(msg, cause, status, output): the ProcessError built
\* from its four arguments.
process_error(msg, cause, status, output) ==
    [desc |-> msg, cause |-> cause, exit |-> status, output |-> output]

\* ------------------------------------------------- std::process::Command

\* Command::new(program): no arguments, the parent's directory and
\* environment unless told otherwise.
Command_new(program) ==
    [program |-> program, args |-> <<>>, cwd |-> None, env |-> EmptyMap]

\* Command::current_dir
Command_current_dir(command, dir) == [command EXCEPT !.cwd = Some(dir)]

\* Command::arg
Command_arg(command, a) == [command EXCEPT !.args = Append(command.args, a)]

\* Command::env: the child gets k = v.
Command_env(command, k, v) == [command EXCEPT !.env = Insert(command.env, k, Some(v))]

\* Command::env_remove: the child gets no k.
Command_env_remove(command, k) == [command EXCEPT !.env = Insert(command.env, k, None)]

\* The process the operating system is asked to start for `command` while
\* the parent's environment is `ambient` and its directory `currentDir`:
\* every variable the command says nothing about is inherited.
ChildOf(command, ambient, currentDir) ==
    [program |-> command.program,
     args |-> command.args,
     cwd |-> IF command.cwd.some THEN command.cwd ELSE currentDir,
     env |-> [k \in Keys |-> IF k \in DOMAIN command.env THEN command.env[k]
                             ELSE ambient[k]]]

\* ExitStatus::success
success(status) == status.kind = "exited" /\ status.n = 0

\* ------------------------------------------- materialisation, execution

\* for arg in self.args.iter() { command.arg(arg); }
RECURSIVE AddArgs(_, _)
AddArgs(command, as) ==
    IF as = <<>> THEN command
    ELSE AddArgs(Command_arg(command, Head(as)), Tail(as))

\* for (k, v) in self.env.iter() { match *v { Some => env, None => env_remove } }
\* with the entries visited in `order`.
RECURSIVE ApplyEnv(_, _, _)
ApplyEnv(command, m, order) ==
    IF order = <<>> THEN command
    ELSE LET k == Head(order)
             next == IF m[k].some THEN Command_env(command, k, m[k].val)
                     ELSE Command_env_remove(command, k)
         IN  ApplyEnv(next, m, Tail(order))

\* build_command passing only the overrides that set a value.
build_command_keeps_removed(b, order) ==
    LET command == Command_current_dir(Command_new(b.program), b.cwd)
        IsSet(k) == b.env[k].some
    IN  ApplyEnv(AddArgs(command, b.args), b.env, SelectSeq(order, IsSet))

\* build_command answering a removal with Command::env_clear.
RECURSIVE ApplyEnvClearing(_, _, _)
ApplyEnvClearing(command, m, order) ==
    IF order = <<>> THEN command
    ELSE LET k == Head(order)
             next == IF m[k].some THEN Command_env(command, k, m[k].val)
                     ELSE [command EXCEPT !.env = EmptyMap]
         IN  ApplyEnvClearing(next, m, Tail(order))

build_command_clears(b, order) ==
    LET command == Command_current_dir(Command_new(b.program), b.cwd)
    IN  ApplyEnvClearing(AddArgs(command, b.args), b.env, order)

\* pub fn build_command, the override map iterated in `order`.
build_command(b, order) ==
    LET command == Command_current_dir(Command_new(b.program), b.cwd)
    IN  ApplyEnv(AddArgs(command, b.args), b.env, order)

\* exec not looking at the exit status.
exec_ignores_status(b, status) ==
    IF ~status.ok
    THEN Err(process_error(<<"Could not execute process", debug_string(b)>>,
                           Some(status.err), None, None))
    ELSE Ok(Unit)

\* pub fn exec, given what command.status() returned.
exec(b, status) ==
    IF ~status.ok
    THEN Err(process_error(<<"Could not execute process", debug_string(b)>>,
                           Some(status.err), None, None))
    ELSE IF success(status.val)
    THEN Ok(Unit)
    ELSE Err(process_error(<<"Process didn't exit successfully", debug_string(b)>>,
                           None, Some(status.val), None))

\* exec_with_output reporting a failed run the way exec does.
exec_with_output_drops_output(b, output) ==
    IF ~output.ok
    THEN Err(process_error(<<"Could not execute process", debug_string(b)>>,
                           Some(output.err), None, None))
    ELSE IF success(output.val.status)
    THEN Ok(output.val)
    ELSE Err(process_error(<<"Process didn't exit successfully", debug_string(b)>>,
                           None, Some(output.val.status), None))

\* pub fn exec_with_output, given what command.output() returned.
exec_with_output(b, output) ==
    IF ~output.ok
    THEN Err(process_error(<<"Could not execute process", debug_string(b)>>,
                           Some(output.err), None, None))
    ELSE IF success(output.val.status)
    THEN Ok(output.val)
    ELSE Err(process_error(<<"Process didn't exit successfully", debug_string(b)>>,
                           None, Some(output.val.status), Some(output.val)))

\* ---------------------------------------------------------------- actions

\* The program starts in directory /w with none of the variables set and
\* no builder made.
Init ==
    /\ ambientEnv = [k \in Keys |-> None]
    /\ ambientCwd = Some("/w")
    /\ self = None
    /\ hist = [k \in Keys |-> NoCall]
    /\ supplied = <<>>
    /\ moved = {}
    /\ built = None
    /\ last = Nothing

\* The bookkeeping of a materialisation of `command`.
Materialised(command) ==
    IF built.some THEN Some([first |-> built.val.first, again |-> TRUE])
    ELSE Some([first |-> command, again |-> FALSE])

\* std::env::set_var(k, v), by the caller or anything else in the process.
SetVar(k, v) ==
    /\ ambientEnv[k] # Some(v)
    /\ ambientEnv' = [ambientEnv EXCEPT ![k] = Some(v)]
    /\ moved' = moved \cup {k}
    /\ last' = Nothing
    /\ UNCHANGED <<ambientCwd, self, hist, supplied, built>>

\* std::env::remove_var(k)
RemoveVar(k) ==
    /\ ambientEnv[k] # None
    /\ ambientEnv' = [ambientEnv EXCEPT ![k] = None]
    /\ moved' = moved \cup {k}
    /\ last' = Nothing
    /\ UNCHANGED <<ambientCwd, self, hist, supplied, built>>

\* The current directory changes, or becomes unresolvable (d = None).
Chdir(d) ==
    /\ ambientCwd # d
    /\ ambientCwd' = d
    /\ last' = Nothing
    /\ UNCHANGED <<ambientEnv, self, hist, supplied, moved, built>>

\* let b = process(cmd): the caller holds the new builder, or none on error.
DoProcess(cmd) ==
    LET r == process(cmd, ambientCwd)
    IN  /\ self' = IF r.ok THEN Some(r.val) ELSE None
        /\ hist' = [k \in Keys |-> NoCall]
        /\ supplied' = <<>>
        /\ moved' = {}
    /\ built' = None
        /\ last' = [op |-> "process", cmd |-> cmd, ret |-> r]
        /\ UNCHANGED <<ambientEnv, ambientCwd>>

\* b.arg(a)
DoArg(a) ==
    /\ self.some
    /\ Len(self.val.args) < MaxArgs
    /\ self' = Some(arg(self.val, a))
    /\ supplied' = Append(supplied, a)
    /\ moved' = {}
    /\ built' = None
    /\ last' = [op |-> "arg"]
    /\ UNCHANGED <<ambientEnv, ambientCwd, hist>>

\* supplied, then each of `arguments` in turn.
RECURSIVE EachAppended(_, _)
EachAppended(log, arguments) ==
    IF arguments = <<>> THEN log
    ELSE EachAppended(Append(log, Head(arguments)), Tail(arguments))

\* b.args(arguments)
DoArgs(arguments) ==
    /\ self.some
    /\ Len(self.val.args) + Len(arguments) <= MaxArgs
    /\ self' = Some(args(self.val, arguments))
    /\ supplied' = EachAppended(supplied, arguments)
    /\ moved' = {}
    /\ built' = None
    /\ last' = [op |-> "args"]
    /\ UNCHANGED <<ambientEnv, ambientCwd, hist>>

\* b.cwd(path)
DoCwd(path) ==
    /\ self.some
    /\ self' = Some(cwd(self.val, path))
    /\ moved' = {}
    /\ built' = None
    /\ last' = [op |-> "cwd"]
    /\ UNCHANGED <<ambientEnv, ambientCwd, hist, supplied>>

\* b.env(key, val)
DoEnv(key, val) ==
    /\ self.some
    /\ self' = Some(env(self.val, key, val))
    /\ hist' = [hist EXCEPT ![key] = [call |-> "env", val |-> val]]
    /\ moved' = {}
    /\ built' = None
    /\ last' = [op |-> "env", key |-> key]
    /\ UNCHANGED <<ambientEnv, ambientCwd, supplied>>

\* b.env_remove(key)
DoEnvRemove(key) ==
    /\ self.some
    /\ self' = Some(env_remove(self.val, key))
    /\ hist' = [hist EXCEPT ![key] = [call |-> "env_remove"]]
    /\ moved' = {}
    /\ built' = None
    /\ last' = [op |-> "env_remove", key |-> key]
    /\ UNCHANGED <<ambientEnv, ambientCwd, supplied>>

\* b.get_args()
DoGetArgs ==
    /\ self.some
    /\ last' = [op |-> "get_args", ret |-> get_args(self.val)]
    /\ UNCHANGED <<ambientEnv, ambientCwd, self, hist, supplied, moved, built>>

\* b.get_cwd()
DoGetCwd ==
    /\ self.some
    /\ last' = [op |-> "get_cwd", ret |-> get_cwd(self.val)]
    /\ UNCHANGED <<ambientEnv, ambientCwd, self, hist, supplied, moved, built>>

\* b.get_env(var), in the ambient environment of the moment.
DoGetEnv(var) ==
    /\ self.some
    /\ last' = [op |-> "get_env", var |-> var,
                ret |-> get_env(self.val, ambientEnv, var)]
    /\ UNCHANGED <<ambientEnv, ambientCwd, self, hist, supplied, moved, built>>

\* b.get_envs()
DoGetEnvs ==
    /\ self.some
    /\ last' = [op |-> "get_envs", ret |-> get_envs(self.val)]
    /\ UNCHANGED <<ambientEnv, ambientCwd, self, hist, supplied, moved, built>>

\* b.build_command(): a descriptor, and nothing started.
DoBuildCommand ==
    /\ self.some
    /\ \E order \in IterationOrders(DOMAIN self.val.env) :
         LET command == build_command(self.val, order)
         IN  /\ built' = Materialised(command)
             /\ last' = [op |-> "build_command", ret |-> command]
    /\ UNCHANGED <<ambientEnv, ambientCwd, self, hist, supplied, moved>>

\* exec taking the arguments out of the builder as it passes them on.
DoExec_drains ==
    /\ self.some
    /\ \E order \in IterationOrders(DOMAIN self.val.env), status \in StatusResults :
         LET command == build_command(self.val, order)
         IN  /\ built' = Materialised(command)
             /\ last' = [op |-> "exec", command |-> command,
                         child |-> ChildOf(command, ambientEnv, ambientCwd),
                         os |-> status,
                         ret |-> exec(self.val, status)]
    /\ self' = Some([self.val EXCEPT !.args = <<>>])
    /\ UNCHANGED <<ambientEnv, ambientCwd, hist, supplied, moved>>

\* exec: the command is materialised, the operating system is asked to
\* start it in the ambient state of that moment, and its answer classified.
DoExec ==
    /\ self.some
    /\ \E order \in IterationOrders(DOMAIN self.val.env), status \in StatusResults :
         LET command == build_command(self.val, order)
         IN  /\ built' = Materialised(command)
             /\ last' = [op |-> "exec", command |-> command,
                         child |-> ChildOf(command, ambientEnv, ambientCwd),
                         os |-> status,
                         ret |-> exec(self.val, status)]
    /\ UNCHANGED <<ambientEnv, ambientCwd, self, hist, supplied, moved>>

\* exec_with_output: as exec, the child's output captured.
DoExecWithOutput ==
    /\ self.some
    /\ \E order \in IterationOrders(DOMAIN self.val.env), output \in OutputResults :
         LET command == build_command(self.val, order)
         IN  /\ built' = Materialised(command)
             /\ last' = [op |-> "exec_with_output", command |-> command,
                         child |-> ChildOf(command, ambientEnv, ambientCwd),
                         os |-> output,
                         ret |-> exec_with_output(self.val, output)]
    /\ UNCHANGED <<ambientEnv, ambientCwd, self, hist, supplied, moved>>

\* The ambient process state changes.
Ambient ==
    \/ \E k \in Keys, v \in AmbientVals : SetVar(k, v)
    \/ \E k \in Keys : RemoveVar(k)

\* A builder is made or configured.
Configure ==
    \/ \E p \in Programs : DoProcess(p)
    \/ \E a \in ArgVals : DoArg(a)
    \/ \E as \in SeqsUpTo(ArgVals, MaxArgs) : DoArgs(as)
    \/ \E d \in Dirs : DoCwd(d)
    \/ \E k \in Keys, v \in Vals : DoEnv(k, v)
    \/ \E k \in Keys : DoEnvRemove(k)

\* Construction, configuration and the accessors, in a process whose
\* environment and directory change.
NextConfig ==
    \/ Ambient
    \/ \E d \in {None} \cup {Some(x) : x \in Dirs} : Chdir(d)
    \/ Configure
    \/ DoGetArgs
    \/ DoGetCwd
    \/ \E k \in Keys : DoGetEnv(k)
    \/ DoGetEnvs

SpecConfig == Init /\ [][NextConfig]_vars

\* Construction, the working directory, the environment overrides and
\* execution, in a process whose environment changes.
NextEnviron ==
    \/ Ambient
    \/ \E p \in Programs : DoProcess(p)
    \/ \E d \in Dirs : DoCwd(d)
    \/ \E k \in Keys, v \in Vals : DoEnv(k, v)
    \/ \E k \in Keys : DoEnvRemove(k)
    \/ DoExec

SpecEnviron == Init /\ [][NextEnviron]_vars

\* Configuration and materialisation, in a process whose environment
\* changes.
NextBuild ==
    \/ Ambient
    \/ Configure
    \/ DoBuildCommand

SpecBuild == Init /\ [][NextBuild]_vars

\* Configuration, materialisation and the two execution operations.
NextExec ==
    \/ Configure
    \/ DoBuildCommand
    \/ DoExec
    \/ DoExecWithOutput

SpecExec == Init /\ [][NextExec]_vars

\* Everything together.
Next ==
    \/ NextConfig
    \/ DoBuildCommand
    \/ DoExec
    \/ DoExecWithOutput

Spec == Init /\ [][Next]_vars

\* ----------------------------------------------------------------- claims

\* The override entry of key j: Some(entry), or None when the map has none.
Entry(b, j) == IF j \in DOMAIN b.env THEN Some(b.env[j]) ELSE None

\* What the most recent env / env_remove call on a key asks get_env to
\* return.
Asked(call) == IF call.call = "env" THEN Some(call.val) ELSE None

\* C1: for a key that env or env_remove has been called on, get_env returns
\* what the most recent such call fixed (the value of env, absent after
\* env_remove), whatever the ambient environment holds for the key.
C1_LastCallDecides ==
    (last.op = "get_env" /\ hist[last.var] # NoCall)
        => last.ret = Asked(hist[last.var])

\* get_env returned absent for a removed key that the ambient environment
\* defines.
C1_Witness ==
    /\ last.op = "get_env"
    /\ hist[last.var].call = "env_remove"
    /\ ambientEnv[last.var] = Some("c")
    /\ last.ret = None

\* C2: for a key that neither env nor env_remove was ever called on,
\* get_env returns the ambient environment's value at the moment of the
\* call (absent if unset), also when that value changed after the builder
\* was made or configured.
C2_AmbientAtCallTime ==
    (last.op = "get_env" /\ hist[last.var] = NoCall)
        => last.ret = ambientEnv[last.var]

\* get_env returned the value the ambient environment took after the
\* builder was last touched.
C2_Witness ==
    /\ last.op = "get_env"
    /\ hist[last.var] = NoCall
    /\ last.var \in moved
    /\ last.ret = Some("c")

\* arg once per element of `arguments`, in order.
RECURSIVE EachArg(_, _)
EachArg(b, arguments) ==
    IF arguments = <<>> THEN b
    ELSE EachArg(arg(b, Head(arguments)), Tail(arguments))

\* C3: get_args() is the concatenation, in call order, of the values given
\* to arg and args since construction, whatever other mutators ran in
\* between, and args(values) leaves the builder as arg on each element of
\* values in turn would.
C3_ArgsInCallOrder ==
    /\ [](self.some => get_args(self.val) = supplied)
    /\ [](last.op = "get_args" => last.ret = supplied)
    /\ [][last'.op = "args" =>
            \E as \in SeqsUpTo(ArgVals, MaxArgs) :
                /\ supplied' = supplied \o as
                /\ self' = Some(EachArg(self.val, as))]_vars

\* get_args returned two arguments in the order given, on a builder whose
\* environment overrides and directory were set as well.
C3_Witness ==
    /\ last.op = "get_args"
    /\ last.ret = <<"y", "x">>
    /\ hist["K1"] # NoCall
    /\ self.val.cwd = "/t"

\* C9: process(program) fails exactly when the current directory cannot be
\* determined, and then yields the error and no builder; otherwise it
\* yields a builder with the given program, no arguments, no overrides and
\* the current directory of that moment as cwd.
C9_Construction ==
    last.op = "process" =>
        IF ambientCwd.some
        THEN /\ last.ret.ok
             /\ self = Some(last.ret.val)
             /\ last.ret.val.program = last.cmd
             /\ last.ret.val.args = <<>>
             /\ DOMAIN last.ret.val.env = {}
             /\ last.ret.val.cwd = ambientCwd.val
        ELSE /\ ~last.ret.ok
             /\ last.ret.err = "IOError"
             /\ self = None

\* process failed where the current directory could not be determined.
C9_Witness ==
    /\ last.op = "process"
    /\ ~ambientCwd.some
    /\ ~last.ret.ok
    /\ self = None

\* C10: arg and args change only the argument list, cwd only the working
\* directory, env(k, _) and env_remove(k) only the override entry of k, no
\* mutator changes the program, and the keys of get_envs() are exactly the
\* keys env or env_remove was called on.
C10_MutatorFrames ==
    /\ [](self.some =>
            DOMAIN get_envs(self.val) = {k \in Keys : hist[k] # NoCall})
    /\ [][last'.op \in {"arg", "args"}
          => /\ self'.val.program = self.val.program
             /\ self'.val.cwd = self.val.cwd
             /\ self'.val.env = self.val.env]_vars
    /\ [][last'.op = "cwd"
          => /\ self'.val.program = self.val.program
             /\ self'.val.args = self.val.args
             /\ self'.val.env = self.val.env]_vars
    /\ [][last'.op \in {"env", "env_remove"}
          => /\ self'.val.program = self.val.program
             /\ self'.val.args = self.val.args
             /\ self'.val.cwd = self.val.cwd
             /\ \A j \in Keys \ {last'.key} :
                    Entry(self'.val, j) = Entry(self.val, j)]_vars

\* Every mutator has acted on the builder.
C10_Witness ==
    /\ self.some
    /\ hist["K1"].call = "env"
    /\ hist["K2"].call = "env_remove"
    /\ Len(self.val.args) = MaxArgs
    /\ self.val.cwd = "/t"
    /\ DOMAIN get_envs(self.val) = Keys

\* The status every success carries.
ExitedZero == [kind |-> "exited", n |-> 0]

\* C4: exec succeeds exactly when the child was spawned and ended with a
\* success status; a spawn failure gives an error with the OS error and
\* neither exit status nor output; a spawned child that ended otherwise
\* gives an error with that exit status, no OS error and no output.
C4_ExecClassifies ==
    last.op = "exec" =>
        /\ last.ret.ok <=> (last.os.ok /\ last.os.val = ExitedZero)
        /\ ~last.os.ok =>
            /\ ~last.ret.ok
            /\ last.ret.err.cause = Some(last.os.err)
            /\ last.ret.err.exit = None
            /\ last.ret.err.output = None
        /\ (last.os.ok /\ last.os.val # ExitedZero) =>
            /\ ~last.ret.ok
            /\ last.ret.err.cause = None
            /\ last.ret.err.exit = Some(last.os.val)
            /\ last.ret.err.output = None

\* exec reported a child killed by a signal as an error carrying the status.
C4_Witness ==
    /\ last.op = "exec"
    /\ last.os = Ok([kind |-> "signaled", n |-> 9])
    /\ ~last.ret.ok
    /\ last.ret.err.exit = Some([kind |-> "signaled", n |-> 9])
    /\ last.ret.err.cause = None

\* The kind of a result of exec or exec_with_output.
Class(r) ==
    IF r.ok THEN "success"
    ELSE IF r.err.cause.some THEN "spawn failure" ELSE "non-zero exit"

\* What command.status() returns where command.output() returns `output`.
StatusOf(output) == IF output.ok THEN Ok(output.val.status) ELSE output

\* C5: exec_with_output classifies the child's outcome as exec does; on
\* success it returns the captured output of the run, on a non-zero or
\* abnormal exit an error with the exit status and the captured output of
\* the run and no OS error, on a spawn failure an error with the OS error
\* and neither status nor output.
C5_ExecWithOutputClassifies ==
    last.op = "exec_with_output" =>
        /\ Class(last.ret) = Class(exec(self.val, StatusOf(last.os)))
        /\ (last.os.ok /\ last.os.val.status = ExitedZero) =>
            last.ret = Ok(last.os.val)
        /\ (last.os.ok /\ last.os.val.status # ExitedZero) =>
            /\ ~last.ret.ok
            /\ last.ret.err.cause = None
            /\ last.ret.err.exit = Some(last.os.val.status)
            /\ last.ret.err.output = Some(last.os.val)
        /\ ~last.os.ok =>
            /\ ~last.ret.ok
            /\ last.ret.err.cause = Some(last.os.err)
            /\ last.ret.err.exit = None
            /\ last.ret.err.output = None

\* exec_with_output reported a child that wrote output and exited with 1 as
\* an error carrying what it wrote.
C5_Witness ==
    /\ last.op = "exec_with_output"
    /\ last.os.ok
    /\ last.os.val.status = [kind |-> "exited", n |-> 1]
    /\ ~last.ret.ok
    /\ last.ret.err.output.some
    /\ last.ret.err.output.val.stdout = "hello"

\* C6: the child started for the materialised command has, for every
\* variable, the override value where the map holds one, no variable where
\* the map holds a removal, and the ambient value of the moment of the
\* spawn where the map holds nothing: what get_env returns for it.
C6_ChildEnvironment ==
    last.op = "exec" =>
        \A k \in Keys :
            /\ last.child.env[k] =
                 (IF k \in DOMAIN self.val.env THEN self.val.env[k]
                  ELSE ambientEnv[k])
            /\ last.child.env[k] = get_env(self.val, ambientEnv, k)

\* Both variables were set in the ambient environment after the builder
\* was configured; the child sees the one left alone and not the one
\* removed.
C6_Witness ==
    /\ last.op = "exec"
    /\ moved = Keys
    /\ hist["K1"] = NoCall
    /\ last.child.env["K1"] = Some("c")
    /\ hist["K2"].call = "env_remove"
    /\ ambientEnv["K2"] = Some("c")
    /\ last.child.env["K2"] = None

\* C7: build_command called again with no mutator call in between yields a
\* descriptor equal to the first (program, arguments, working directory,
\* environment overrides), in whatever order the override map is iterated;
\* it asks the operating system for no child and changes neither the
\* builder nor the ambient state.
C7_BuildCommandIdempotent ==
    /\ []((last.op = "build_command" /\ built.val.again)
            => last.ret = built.val.first)
    /\ [](last.op = "build_command" => "child" \notin DOMAIN last)
    /\ [][last'.op = "build_command"
          => /\ self' = self
             /\ ambientEnv' = ambientEnv
             /\ ambientCwd' = ambientCwd]_vars

\* build_command ran a second time on a builder with two overrides and two
\* arguments, after the ambient environment had changed.
C7_Witness ==
    /\ last.op = "build_command"
    /\ built.val.again
    /\ moved # {}
    /\ DOMAIN self.val.env = Keys
    /\ Len(self.val.args) = MaxArgs

\* C8: exec and exec_with_output leave the builder as it was, whatever the
\* outcome, so every execution between two mutator calls materialises the
\* same command.
C8_ExecutionLeavesBuilder ==
    /\ [][last'.op \in {"exec", "exec_with_output"} => self' = self]_vars
    /\ []((last.op \in {"exec", "exec_with_output"} /\ built.val.again)
            => last.command = built.val.first)

\* A second execution of a configured builder failed.
C8_Witness ==
    /\ last.op \in {"exec", "exec_with_output"}
    /\ built.val.again
    /\ ~last.ret.ok
    /\ Len(self.val.args) = MaxArgs
    /\ DOMAIN self.val.env # {}

====
